---- MODULE Spec2Model ----
(***************************************************************************)
(* The service registry and lifecycle controller of go-daemonize           *)
(* (src/service.go): Daemon.Run, AddService, GetService and the            *)
(* ServiceController start/stop protocol, with the goroutine each started  *)
(* service runs in.  Every step below is one atomic access of the Go code; *)
(* the orchestrator (Daemon.Run) and the service goroutines interleave.    *)
(* The Daemon of the start/shutdown variant (src/unnamed/part_000) is      *)
(* modelled next to it, in specifications of its own (SpecPair).           *)
(***************************************************************************)
EXTENDS Integers, FiniteSets, TLC

\* ------------------------------------------------------------------ bounds
NumNames == 2      \* service names the caller may register

Names == 1..NumNames

\* The Service implementations a caller registers: "helper" is a service whose
\* Run is ServiceController.Run (Up, wait for cancellation, map the cause);
\* "custom" is any other implementation of the Service interface.
Kinds == {"helper", "custom"}

\* ------------------------------------------------------------- constants
ServiceDown == "down"
ServiceStarting == "starting"
ServiceUp == "up"
ServiceStopping == "stopping"
Stopped == "Stopped"

ServiceStatus == {ServiceDown, ServiceStarting, ServiceUp, ServiceStopping}

\* A context that is not cancelled has cause "none".
Causes == {"none", Stopped, "Canceled", "DeadlineExceeded"}

VARIABLES
    services,   \* daemon.services: name -> controller (present = key in the map)
    task,       \* the goroutine of each controller: pc, err of service.Run
    cause,      \* cancellation cause of each service context (serviceCtx)
    base,       \* cancellation cause of the context handed to Run
    wg,         \* the WaitGroup counter of the current Run
    rpc,        \* where Daemon.Run stands
    todo,       \* controllers the current range loop has not visited yet
    cur,        \* controller the current loop body works on (0: none)
    ok,         \* Run's local ok
    startErr,   \* what the last startService of this Run returned
    warned,     \* controllers whose run error this Run logged with Warn
    found,      \* name and result of the last GetService call
    added,      \* arguments of the last AddService call since Run was entered
    sig,        \* Run has received a signal from quit
    shut,       \* start/shutdown variant: the goroutine stopService launches
    crashed     \* the process died of a runtime panic

orch == <<rpc, todo, cur, ok, startErr>>

vars == <<services, task, cause, base, wg, orch, warned, found, added, sig, shut, crashed>>

\* ------------------------------------------------------------- data
\* ctrl.ctx is nil, the context of the current (or last) Run, or the context of
\* a Run before that one.
Contexts == {"nil", "this", "old"}

NoController == [present |-> FALSE, service |-> "nil", status |-> ServiceDown,
                 stop |-> FALSE, ctx |-> "nil"]

NoTask == [pc |-> "none", err |-> "nil"]

\* Start/shutdown variant, the goroutine of stopService: not launched,
\* launched, inside svc.Shutdown(sctx), inside it with the deadline of sctx
\* passed, or ended.
ShutStates == {"none", "launched", "called", "expired", "returned"}

\* No AddService call yet.
NoCall == [name |-> 0, service |-> "nil", replaced |-> FALSE]

NewController(svc) == [present |-> TRUE, service |-> svc, status |-> ServiceDown,
                       stop |-> FALSE, ctx |-> "nil"]

Registered == {n \in Names : services[n].present}

\* context.Context.Err() of a cancelled context, from its cause.
CtxErr(c) == IF c = "DeadlineExceeded" THEN "DeadlineExceeded" ELSE "Canceled"

\* A CancelCauseFunc: the first cancellation sets the cause, later ones do nothing.
Cancel(c, new) == IF c = "none" THEN new ELSE c

\* The service context lives from the goroutine's first statement to its last.
HasCtx(n) == task[n].pc \in {"run", "wait", "cleared"}

TypeOK ==
    /\ services \in [Names -> [present : BOOLEAN,
                               service : Kinds \cup {"nil", "pair"},
                               status : ServiceStatus, stop : BOOLEAN,
                               ctx : Contexts]]
    /\ task \in [Names -> [pc : {"none", "launched", "run", "wait", "cleared",
                                 "done"},
                           err : {"nil", "failed", "Canceled", "DeadlineExceeded"}]]
    /\ cause \in [Names -> Causes]
    /\ base \in Causes \ {Stopped}
    /\ wg \in -1..NumNames
    /\ rpc \in {"idle", "start", "add", "signal", "stop", "stopCall", "wait",
                "returned"}
    /\ todo \subseteq Names
    /\ cur \in 0..NumNames
    /\ ok \in BOOLEAN
    /\ startErr \in ServiceStatus \cup {"nil"}
    /\ warned \subseteq Names
    /\ found \in [name : 0..NumNames, service : Kinds \cup {"nil"}]
    /\ added \in [name : 0..NumNames, service : Kinds \cup {"nil"},
                  replaced : BOOLEAN]
    /\ sig \in BOOLEAN
    /\ shut \in [Names -> ShutStates]
    /\ crashed \in BOOLEAN

Init ==
    /\ services = [n \in Names |-> NoController]
    /\ task = [n \in Names |-> NoTask]
    /\ cause = [n \in Names |-> "none"]
    /\ base = "none"
    /\ wg = 0
    /\ rpc = "idle"
    /\ todo = {}
    /\ cur = 0
    /\ ok = TRUE
    /\ startErr = "nil"
    /\ warned = {}
    /\ found = [name |-> 0, service |-> "nil"]
    /\ added = NoCall
    /\ sig = FALSE
    /\ shut = [n \in Names |-> "none"]
    /\ crashed = FALSE

\* ------------------------------------------------------------- registry
\* AddService, were it to keep the controller a name already has.
AddServiceKeep(name, svc) ==
    /\ services' = [services EXCEPT
                       ![name] = IF @.present THEN @ ELSE NewController(svc)]
    /\ task' = task
    /\ added' = [name |-> name, service |-> svc,
                 replaced |-> services[name].present]
    /\ UNCHANGED <<cause, base, wg, orch, warned, found, sig, shut, crashed>>

\* Daemon.AddService: daemon.services[name] = a new controller, status down.
\* The controller it replaces, if any, is dropped with what belonged to it.
AddServiceBody(name, svc) ==
    /\ services' = [services EXCEPT ![name] = NewController(svc)]
    /\ task' = [task EXCEPT ![name] = NoTask]
    /\ added' = [name |-> name, service |-> svc,
                 replaced |-> services[name].present]
    /\ UNCHANGED <<cause, base, wg, orch, warned, found, sig, shut, crashed>>

\* The caller registers a service before it calls Run.
AddService(name, svc) ==
    /\ ~crashed
    /\ rpc = "idle"
    /\ AddServiceBody(name, svc)

\* GetService, were a missing key to fall back on some registered service.
GetServiceAny(name) ==
    IF services[name].present THEN services[name].service
    ELSE IF Registered # {} THEN services[CHOOSE m \in Registered : TRUE].service
    ELSE "nil"

\* Daemon.GetService: the controller's service, or nil when the key is absent.
GetService(name) ==
    IF services[name].present THEN services[name].service ELSE "nil"

\* The caller resolves a name on the Daemon, before Run or after it returned.
DaemonGetService(name) ==
    /\ ~crashed
    /\ rpc \in {"idle", "returned"}
    /\ found' = [name |-> name, service |-> GetService(name)]
    /\ UNCHANGED <<services, task, cause, base, wg, orch, warned, added, sig, shut, crashed>>

\* A running service resolves a name through its context: GetServiceProvider
\* finds the Daemon that Run published there, and asks it.
CtxGetService(n, name) ==
    /\ ~crashed
    /\ task[n].pc \in {"run", "wait"}
    /\ found' = [name |-> name, service |-> GetService(name)]
    /\ UNCHANGED <<services, task, cause, base, wg, orch, warned, added, sig, shut, crashed>>

\* ------------------------------------------------------------- Daemon.Run
\* Where the orchestrator goes once a range loop over daemon.services ends.
AfterStartLoop(rest) == IF rest = {} THEN "signal" ELSE "start"

AfterStopLoop(rest) == IF rest = {} THEN "wait" ELSE "stop"

\* Run is entered: a fresh WaitGroup, ok := true, a context derived from the
\* caller's, and the first range loop begins.  What a previous Run left behind
\* (its contexts, its log) is gone.
RunBody ==
    /\ services' = [n \in Names |->
                      [services[n] EXCEPT !.ctx = IF @ = "this" THEN "old" ELSE @]]
    /\ wg' = 0
    /\ ok' = TRUE
    /\ base' = "none"
    /\ todo' = Registered
    /\ cur' = 0
    /\ rpc' = AfterStartLoop(Registered)
    /\ startErr' = "nil"
    /\ warned' = {}
    /\ cause' = [n \in Names |-> "none"]
    /\ added' = NoCall
    /\ sig' = FALSE
    /\ UNCHANGED <<task, found, shut, crashed>>

Run ==
    /\ ~crashed
    /\ rpc = "idle"
    /\ RunBody

\* StartService, were a stopping controller to be started again like a down one.
StartServiceRestart(n) ==
    /\ ~crashed
    /\ rpc = "start"
    /\ n \in todo
    /\ IF services[n].status \notin {ServiceDown, ServiceStopping}
       THEN /\ services' = [services EXCEPT ![n].ctx = "this"]
            /\ startErr' = services[n].status
            /\ ok' = FALSE
            /\ todo' = Registered
            /\ rpc' = AfterStopLoop(Registered)
            /\ UNCHANGED <<task, cur>>
       ELSE /\ services' = [services EXCEPT ![n].ctx = "this",
                                            ![n].status = ServiceStarting]
            /\ task' = [task EXCEPT ![n] = [NoTask EXCEPT !.pc = "launched"]]
            /\ startErr' = "nil"
            /\ cur' = n
            /\ rpc' = "add"
            /\ UNCHANGED <<ok, todo>>
    /\ UNCHANGED <<cause, base, wg, warned, found, added, sig, shut, crashed>>

\* ctrl.startService up to and including the go statement.  The context is
\* stored before the status is examined.  On an error Run leaves the loop and
\* goes to the stop loop.
StartService(n) ==
    /\ ~crashed
    /\ rpc = "start"
    /\ n \in todo
    /\ IF services[n].status # ServiceDown
       THEN /\ services' = [services EXCEPT ![n].ctx = "this"]
            /\ startErr' = services[n].status
            /\ ok' = FALSE
            /\ todo' = Registered
            /\ rpc' = AfterStopLoop(Registered)
            /\ UNCHANGED <<task, cur>>
       ELSE /\ services' = [services EXCEPT ![n].ctx = "this",
                                            ![n].status = ServiceStarting]
            /\ task' = [task EXCEPT ![n] = [NoTask EXCEPT !.pc = "launched"]]
            /\ startErr' = "nil"
            /\ cur' = n
            /\ rpc' = "add"
            /\ UNCHANGED <<ok, todo>>
    /\ UNCHANGED <<cause, base, wg, warned, found, added, sig, shut, crashed>>

\* wg.Add(1), after the goroutine was launched; startService returns nil.
StartAdd(n) ==
    /\ ~crashed
    /\ rpc = "add"
    /\ cur = n
    /\ wg' = wg + 1
    /\ todo' = todo \ {n}
    /\ cur' = 0
    /\ rpc' = AfterStartLoop(todo \ {n})
    /\ UNCHANGED <<services, task, cause, base, ok, startErr, warned,
                   found, added, sig, shut, crashed>>

\* RecvSignal, were Run also to leave its wait, with no signal, once every
\* service goroutine has ended.
RecvSignalOrDone ==
    /\ ~crashed
    /\ rpc = "signal"
    /\ sig' = (\E n \in Registered : task[n].pc # "done")
    /\ todo' = Registered
    /\ rpc' = AfterStopLoop(Registered)
    /\ UNCHANGED <<services, task, cause, base, wg, cur, ok, startErr,
                   warned, found, added, shut, crashed>>

\* sig := <-quit: SIGINT or SIGTERM is delivered and Run receives it.
RecvSignal ==
    /\ ~crashed
    /\ rpc = "signal"
    /\ sig' = TRUE
    /\ todo' = Registered
    /\ rpc' = AfterStopLoop(Registered)
    /\ UNCHANGED <<services, task, cause, base, wg, cur, ok, startErr,
                   warned, found, added, shut, crashed>>

\* The caller's context is cancelled (cancel function or deadline) while Run
\* executes: every service context derived from it so far is cancelled with
\* the same cause.
BaseCancel(c) ==
    /\ ~crashed
    /\ rpc \notin {"idle", "returned"}
    /\ base = "none"
    /\ base' = c
    /\ cause' = [n \in Names |-> IF HasCtx(n) THEN Cancel(cause[n], c) ELSE cause[n]]
    /\ UNCHANGED <<services, task, wg, orch, warned, found, added, sig, shut, crashed>>

\* stopService, were it to call ctrl.stop without testing it.
StopCheckNoGuard(n) ==
    /\ ~crashed
    /\ rpc = "stop"
    /\ n \in todo
    /\ cur' = n
    /\ rpc' = "stopCall"
    /\ UNCHANGED <<services, task, cause, base, wg, todo, ok, startErr, warned,
                   found, added, sig, shut, crashed>>

\* ctrl.stopService, the test `ctrl.stop != nil`.
StopCheck(n) ==
    /\ ~crashed
    /\ rpc = "stop"
    /\ n \in todo
    /\ IF services[n].stop
       THEN /\ cur' = n
            /\ rpc' = "stopCall"
            /\ UNCHANGED todo
       ELSE /\ todo' = todo \ {n}
            /\ rpc' = AfterStopLoop(todo \ {n})
            /\ UNCHANGED cur
    /\ UNCHANGED <<services, task, cause, base, wg, ok, startErr, warned,
                   found, added, sig, shut, crashed>>

\* StopCall, were stopService to mark the controller stopping itself.
StopCallMarks(n, reload) ==
    /\ ~crashed
    /\ rpc = "stopCall"
    /\ cur = n
    /\ IF services[n].stop \/ ~reload
       THEN /\ cause' = [cause EXCEPT
                           ![n] = IF HasCtx(n) THEN Cancel(@, Stopped) ELSE @]
            /\ services' = [services EXCEPT ![n].stop = FALSE,
                                            ![n].status = ServiceStopping]
            /\ todo' = todo \ {n}
            /\ cur' = 0
            /\ rpc' = AfterStopLoop(todo \ {n})
            /\ UNCHANGED crashed
       ELSE /\ crashed' = TRUE
            /\ UNCHANGED <<services, cause, rpc, todo, cur>>
    /\ UNCHANGED <<task, base, wg, ok, startErr, warned, found, added, sig, shut>>

\* StopCall, were stopService to cancel without a cause.
StopCallPlain(n, reload) ==
    /\ ~crashed
    /\ rpc = "stopCall"
    /\ cur = n
    /\ IF services[n].stop \/ ~reload
       THEN /\ cause' = [cause EXCEPT
                           ![n] = IF HasCtx(n) THEN Cancel(@, "Canceled") ELSE @]
            /\ services' = [services EXCEPT ![n].stop = FALSE]
            /\ todo' = todo \ {n}
            /\ cur' = 0
            /\ rpc' = AfterStopLoop(todo \ {n})
            /\ UNCHANGED crashed
       ELSE /\ crashed' = TRUE
            /\ UNCHANGED <<services, cause, rpc, todo, cur>>
    /\ UNCHANGED <<task, base, wg, ok, startErr, warned, found, added, sig, shut>>

\* ctrl.stopService, `ctrl.stop(Stopped); ctrl.stop = nil`.  The field is read
\* without synchronisation: when the goroutine has set it to nil since the
\* test, the call either uses the value loaded for the test (reload = FALSE)
\* or calls a nil function, which panics.  Cancelling a context whose goroutine
\* has ended changes nothing anyone can see.
StopCall(n, reload) ==
    /\ ~crashed
    /\ rpc = "stopCall"
    /\ cur = n
    /\ IF services[n].stop \/ ~reload
       THEN /\ cause' = [cause EXCEPT
                           ![n] = IF HasCtx(n) THEN Cancel(@, Stopped) ELSE @]
            /\ services' = [services EXCEPT ![n].stop = FALSE]
            /\ todo' = todo \ {n}
            /\ cur' = 0
            /\ rpc' = AfterStopLoop(todo \ {n})
            /\ UNCHANGED crashed
       ELSE /\ crashed' = TRUE
            /\ UNCHANGED <<services, cause, rpc, todo, cur>>
    /\ UNCHANGED <<task, base, wg, ok, startErr, warned, found, added, sig, shut>>

\* Wait, were the barrier to let Run go with one goroutine still pending.
WaitEarly ==
    /\ ~crashed
    /\ rpc = "wait"
    /\ wg <= 1
    /\ rpc' = "returned"
    /\ UNCHANGED <<services, task, cause, base, wg, todo, cur, ok,
                   startErr, warned, found, added, sig, shut, crashed>>

\* wg.Wait() returns when the counter is zero; Run logs "exiting" and returns.
Wait ==
    /\ ~crashed
    /\ rpc = "wait"
    /\ wg = 0
    /\ rpc' = "returned"
    /\ UNCHANGED <<services, task, cause, base, wg, todo, cur, ok,
                   startErr, warned, found, added, sig, shut, crashed>>

\* ------------------------------------------------------------- the goroutine
\* serviceCtx, cancel := context.WithCancelCause(ctx); ctrl.stop = cancel.
\* A child of a cancelled context is born cancelled with the parent's cause.
TaskBegin(n) ==
    /\ ~crashed
    /\ task[n].pc = "launched"
    /\ cause' = [cause EXCEPT ![n] = base]
    /\ services' = [services EXCEPT ![n].stop = TRUE]
    /\ task' = [task EXCEPT ![n].pc = "run"]
    /\ UNCHANGED <<base, wg, orch, warned, found, added, sig, shut, crashed>>

\* ServiceController.Up: the status becomes up, whatever it was.
Up(n) ==
    /\ services' = [services EXCEPT ![n].status = ServiceUp]
    /\ UNCHANGED <<cause, base, wg, orch, warned, found, added, sig, shut, crashed>>

\* ServiceController.Stopping: the status becomes stopping, whatever it was.
Stopping(n) ==
    /\ services' = [services EXCEPT ![n].status = ServiceStopping]
    /\ UNCHANGED <<cause, base, wg, orch, warned, found, added, sig, shut, crashed>>

\* ServiceController.Run, were it to ignore the cause.
HelperResultClean(c) == "nil"

\* ServiceController.Run, what it returns once ctx.Done() is closed.
HelperResult(c) == IF c = Stopped THEN "nil" ELSE CtxErr(c)

\* ServiceController.Run, first statement: ctrl.Up().
HelperUp(n) ==
    /\ ~crashed
    /\ task[n].pc = "run"
    /\ services[n].service = "helper"
    /\ task' = [task EXCEPT ![n].pc = "wait"]
    /\ Up(n)

\* AfterRun, were a service's error to cancel its siblings.
AfterRunAbort(n, err) ==
    /\ services' = [services EXCEPT ![n].stop = FALSE]
    /\ warned' = IF err # "nil" THEN warned \cup {n} ELSE warned
    /\ task' = [task EXCEPT ![n] = [pc |-> "cleared", err |-> err]]
    /\ cause' = [m \in Names |->
                   IF err # "nil" /\ m # n /\ HasCtx(m)
                   THEN Cancel(cause[m], "Canceled") ELSE cause[m]]
    /\ UNCHANGED <<base, wg, orch, found, added, sig, shut, crashed>>

\* AfterRun, were the goroutine to leave the trigger in place on return.
AfterRunKeepTrigger(n, err) ==
    /\ services' = services
    /\ warned' = IF err # "nil" THEN warned \cup {n} ELSE warned
    /\ task' = [task EXCEPT ![n] = [pc |-> "cleared", err |-> err]]
    /\ UNCHANGED <<cause, base, wg, orch, found, added, sig, shut, crashed>>

\* The goroutine after service.Run returned err: ctrl.stop = nil, and Warn
\* when err != nil.
AfterRun(n, err) ==
    /\ services' = [services EXCEPT ![n].stop = FALSE]
    /\ warned' = IF err # "nil" THEN warned \cup {n} ELSE warned
    /\ task' = [task EXCEPT ![n] = [pc |-> "cleared", err |-> err]]
    /\ UNCHANGED <<cause, base, wg, orch, found, added, sig, shut, crashed>>

\* ServiceController.Run, <-ctx.Done() and the return.
HelperReturn(n) ==
    /\ ~crashed
    /\ task[n].pc = "wait"
    /\ cause[n] # "none"
    /\ AfterRun(n, HelperResult(cause[n]))

\* A hand-written service calls ctrl.Up() while it runs.
CustomUp(n) ==
    /\ ~crashed
    /\ task[n].pc = "run"
    /\ services[n].service = "custom"
    /\ UNCHANGED task
    /\ Up(n)

\* A hand-written service calls ctrl.Stopping() while it runs.
CustomStopping(n) ==
    /\ ~crashed
    /\ task[n].pc = "run"
    /\ services[n].service = "custom"
    /\ UNCHANGED task
    /\ Stopping(n)

\* A hand-written service returns, cleanly or with an error of its own.
CustomReturn(n, e) ==
    /\ ~crashed
    /\ task[n].pc = "run"
    /\ services[n].service = "custom"
    /\ AfterRun(n, e)

\* TaskDone, were the goroutine to signal the barrier without the status write.
TaskDoneNoStatus(n) ==
    /\ ~crashed
    /\ task[n].pc = "cleared"
    /\ wg' = wg - 1
    /\ IF wg = 0
       THEN /\ crashed' = TRUE
            /\ UNCHANGED <<task, cause>>
       ELSE /\ task' = [task EXCEPT ![n] = [pc |-> "done", err |-> "nil"]]
            /\ cause' = [cause EXCEPT ![n] = "none"]
            /\ UNCHANGED crashed
    /\ UNCHANGED <<services, base, orch, warned, found, added, sig, shut>>

\* Under ctrl.mu ctrl.status = ServiceStopping, then wg.Done(): the counter is
\* decremented, and a counter that went negative panics.  Otherwise the
\* goroutine ends, and its locals (err, the service context) with it.
TaskDone(n) ==
    /\ ~crashed
    /\ task[n].pc = "cleared"
    /\ services' = [services EXCEPT ![n].status = ServiceStopping]
    /\ wg' = wg - 1
    /\ IF wg = 0
       THEN /\ crashed' = TRUE
            /\ UNCHANGED <<task, cause>>
       ELSE /\ task' = [task EXCEPT ![n] = [pc |-> "done", err |-> "nil"]]
            /\ cause' = [cause EXCEPT ![n] = "none"]
            /\ UNCHANGED crashed
    /\ UNCHANGED <<base, orch, warned, found, added, sig, shut>>

\* ------------------------------------------------------------- specifications
\* One step of the orchestrator that needs nothing from outside.
RunStep ==
    \/ \E n \in Names : StartService(n)
    \/ \E n \in Names : StartAdd(n)
    \/ \E n \in Names : StopCheck(n)
    \/ \E n \in Names, reload \in BOOLEAN : StopCall(n, reload)
    \/ Wait

\* One step of the goroutine of controller n.
TaskStep(n) ==
    \/ TaskBegin(n)
    \/ HelperUp(n)
    \/ HelperReturn(n)
    \/ CustomUp(n)
    \/ CustomStopping(n)
    \/ \E e \in {"nil", "failed"} : CustomReturn(n, e)
    \/ TaskDone(n)

\* One step of the environment: the caller, the signal, the caller's context.
EnvStep ==
    \/ \E name \in Names, svc \in Kinds : AddService(name, svc)
    \/ Run
    \/ RecvSignal
    \/ \E c \in {"Canceled", "DeadlineExceeded"} : BaseCancel(c)

\* A Daemon used as documented: services are added, then Run is called once.
Next ==
    \/ RunStep
    \/ \E n \in Names : TaskStep(n)
    \/ EnvStep

Spec == Init /\ [][Next]_vars

\* What the Go scheduler guarantees: the orchestrator and every goroutine keep
\* running, and a service returns once its context is cancelled.  Nothing is
\* owed by the environment, nor by a service whose context is not cancelled.
TaskFair(n) ==
    \/ TaskBegin(n)
    \/ HelperUp(n)
    \/ HelperReturn(n)
    \/ (cause[n] # "none" /\ \E e \in {"nil", "failed"} : CustomReturn(n, e))
    \/ TaskDone(n)

Fairness ==
    /\ WF_vars(RunStep)
    /\ \A n \in Names : WF_vars(TaskFair(n))

SpecFair == Init /\ [][Next]_vars /\ Fairness

\* The same Daemon used again: after Run returned the caller may add services
\* and call Run once more.
AddServiceAgain(name, svc) ==
    /\ ~crashed
    /\ rpc = "returned"
    /\ AddServiceBody(name, svc)

RunAgain ==
    /\ ~crashed
    /\ rpc = "returned"
    /\ RunBody

NextReuse ==
    \/ Next
    \/ \E name \in Names, svc \in Kinds : AddServiceAgain(name, svc)
    \/ RunAgain

SpecReuse == Init /\ [][NextReuse]_vars

\* The same Daemon, with the services it has, run again after Run returned.
NextRerun ==
    \/ Next
    \/ RunAgain

SpecRerun == Init /\ [][NextRerun]_vars

\* The registry and its lookups: services are added, Run starts them, and the
\* caller and the running services resolve names.
NextRegistry ==
    \/ \E name \in Names, svc \in Kinds : AddService(name, svc)
    \/ \E name \in Names : DaemonGetService(name)
    \/ \E n \in Names, name \in Names : CtxGetService(n, name)
    \/ Run
    \/ \E n \in Names : StartService(n)
    \/ \E n \in Names : StartAdd(n)
    \/ \E n \in Names : TaskBegin(n)
    \/ \E n \in Names : HelperUp(n)

SpecRegistry == Init /\ [][NextRegistry]_vars

\* ------------------------------------------------ the start/shutdown variant
\* The Daemon whose services are a Start/Shutdown pair: daemon.services maps a
\* name to the service itself, with no controller, status or trigger.  Of the
\* variables above it uses services (present, service), task (the goroutine
\* of startService), wg (daemon.wg), rpc, todo, sig, warned and shut.
PairService == [NoController EXCEPT !.present = TRUE, !.service = "pair"]

\* Daemon.AddService: daemon.services[name] = svc.
PairAddService(name) ==
    /\ rpc = "idle"
    /\ services' = [services EXCEPT ![name] = PairService]
    /\ UNCHANGED <<task, cause, base, wg, orch, warned, found, added, sig,
                   shut, crashed>>

\* Run is entered and its first range loop begins.
PairRun ==
    /\ rpc = "idle"
    /\ todo' = Registered
    /\ rpc' = AfterStartLoop(Registered)
    /\ UNCHANGED <<services, task, cause, base, wg, cur, ok, startErr, warned,
                   found, added, sig, shut, crashed>>

\* daemon.startService: daemon.wg.Add(1), then the go statement.
PairStartService(n) ==
    /\ rpc = "start"
    /\ n \in todo
    /\ wg' = wg + 1
    /\ task' = [task EXCEPT ![n].pc = "launched"]
    /\ todo' = todo \ {n}
    /\ rpc' = AfterStartLoop(todo \ {n})
    /\ UNCHANGED <<services, cause, base, cur, ok, startErr, warned, found,
                   added, sig, shut, crashed>>

\* The goroutine of startService calls svc.Start(ctx).
PairStartCall(n) ==
    /\ task[n].pc = "launched"
    /\ task' = [task EXCEPT ![n].pc = "run"]
    /\ UNCHANGED <<services, cause, base, wg, orch, warned, found, added, sig,
                   shut, crashed>>

\* svc.Start returns err: Warn when err != nil, then daemon.wg.Done().
PairStartReturn(n, err) ==
    /\ task[n].pc = "run"
    /\ warned' = IF err # "nil" THEN warned \cup {n} ELSE warned
    /\ wg' = wg - 1
    /\ task' = [task EXCEPT ![n].pc = "done"]
    /\ UNCHANGED <<services, cause, base, orch, found, added, sig, shut,
                   crashed>>

\* sig := <-quit.
PairRecvSignal ==
    /\ rpc = "signal"
    /\ sig' = TRUE
    /\ todo' = Registered
    /\ rpc' = AfterStopLoop(Registered)
    /\ UNCHANGED <<services, task, cause, base, wg, cur, ok, startErr, warned,
                   found, added, shut, crashed>>

\* daemon.stopService: the go statement, nothing else; it returns at once.
PairStopService(n) ==
    /\ rpc = "stop"
    /\ n \in todo
    /\ shut' = [shut EXCEPT ![n] = "launched"]
    /\ todo' = todo \ {n}
    /\ rpc' = AfterStopLoop(todo \ {n})
    /\ UNCHANGED <<services, task, cause, base, wg, cur, ok, startErr, warned,
                   found, added, sig, crashed>>

\* The goroutine of stopService: sctx with the grace period as its timeout,
\* and the call svc.Shutdown(sctx).
PairShutdownCall(n) ==
    /\ shut[n] = "launched"
    /\ shut' = [shut EXCEPT ![n] = "called"]
    /\ UNCHANGED <<services, task, cause, base, wg, orch, warned, found, added,
                   sig, crashed>>

\* The grace period elapses while svc.Shutdown has not returned: sctx is done.
PairDeadline(n) ==
    /\ shut[n] = "called"
    /\ shut' = [shut EXCEPT ![n] = "expired"]
    /\ UNCHANGED <<services, task, cause, base, wg, orch, warned, found, added,
                   sig, crashed>>

\* svc.Shutdown returns err, in time or late: Warn when err != nil.
PairShutdownReturn(n, err) ==
    /\ shut[n] \in {"called", "expired"}
    /\ shut' = [shut EXCEPT ![n] = "returned"]
    /\ warned' = IF err # "nil" THEN warned \cup {n} ELSE warned
    /\ UNCHANGED <<services, task, cause, base, wg, orch, found, added, sig,
                   crashed>>

\* PairWait, were Run also to wait for the goroutines of stopService.
PairWaitShutdown ==
    /\ rpc = "wait"
    /\ wg = 0
    /\ \A n \in Registered : shut[n] = "returned"
    /\ rpc' = "returned"
    /\ UNCHANGED <<services, task, cause, base, wg, todo, cur, ok, startErr,
                   warned, found, added, sig, shut, crashed>>

\* daemon.wg.Wait() returns when the counter is zero; Run returns.
PairWait ==
    /\ rpc = "wait"
    /\ wg = 0
    /\ rpc' = "returned"
    /\ UNCHANGED <<services, task, cause, base, wg, todo, cur, ok, startErr,
                   warned, found, added, sig, shut, crashed>>

\* One step of the variant's Run that needs nothing from outside.
PairRunStep ==
    \/ \E n \in Names : PairStartService(n)
    \/ \E n \in Names : PairStopService(n)
    \/ PairWait

\* One step of the goroutine in which Start of service n runs.
PairStartStep(n) ==
    \/ PairStartCall(n)
    \/ \E e \in {"nil", "failed"} : PairStartReturn(n, e)

\* One step of the goroutine in which Shutdown of service n runs.
PairShutdownStep(n) ==
    \/ PairShutdownCall(n)
    \/ PairDeadline(n)
    \/ \E e \in {"nil", "failed", "DeadlineExceeded"} : PairShutdownReturn(n, e)

NextPair ==
    \/ \E name \in Names : PairAddService(name)
    \/ PairRun
    \/ PairRecvSignal
    \/ PairRunStep
    \/ \E n \in Names : PairStartStep(n)
    \/ \E n \in Names : PairShutdownStep(n)

SpecPair == Init /\ [][NextPair]_vars

\* Run keeps running, and every Start task does eventually exit.  Nothing is
\* assumed of Shutdown: it may return in time, late or never.
PairFairness ==
    /\ WF_vars(PairRunStep)
    /\ \A n \in Names : WF_vars(PairStartStep(n))

SpecPairFair == Init /\ [][NextPair]_vars /\ PairFairness

\* ------------------------------------------------------------- properties
\* The goroutines that have signalled the join barrier.
Completed == {n \in Names : task[n].pc = "done"}

\* The goroutines that were launched and have not ended.
Active == {n \in Names : task[n].pc \in {"launched", "run", "wait", "cleared"}}

\* C1: once Run has returned, every registered controller's status is
\* stopping: none is left down, starting or up.
C1_AllStoppingAfterRun ==
    rpc = "returned" => \A n \in Registered : services[n].status = ServiceStopping

\* Run has returned with every name registered, a helper and a hand-written
\* service among them.
C1_Witness ==
    /\ rpc = "returned"
    /\ Registered = Names
    /\ {services[n].service : n \in Names} = Kinds
    /\ \A n \in Names : services[n].status = ServiceStopping

\* C2: when every start succeeded, Run has returned only after exactly as many
\* goroutines signalled the barrier as services were registered, and while no
\* launched goroutine is still on its way.
C2_ReturnAfterAllDone ==
    (rpc = "returned" /\ ok) =>
        /\ Cardinality(Completed) = Cardinality(Registered)
        /\ Completed = Registered
        /\ Active = {}
        /\ wg = 0

\* Run has returned after NumNames goroutines signalled the barrier.
C2_Witness ==
    /\ rpc = "returned"
    /\ ok
    /\ Cardinality(Completed) = NumNames

\* Run has received the stop signal and is in its stop loop or at the barrier.
SignalReceived == ok /\ rpc \in {"stop", "stopCall", "wait"}

\* C3: after the stop signal is received Run eventually returns, whatever the
\* interleaving of the stop loop with the service goroutines, given that every
\* service returns once its context is cancelled.  (A run that a panic ended
\* is left aside here: the hang below needs none.)
C3_SignalLeadsToReturn == SignalReceived ~> (rpc = "returned" \/ crashed)

\* C4: cancellation of the context handed to Run, with no signal delivered,
\* starts the shutdown sequence: Run, blocked waiting for a signal, leaves
\* that wait once the context is cancelled.
C4_BaseCancelReleasesRun == (rpc = "signal" /\ base # "none") ~> (rpc # "signal")

\* C5: when a start failed, once Run has left its stop loop no started service
\* is still running with a context that was not cancelled.
C5_StartedAreCancelled ==
    (~ok /\ rpc = "wait") =>
        \A n \in Names : task[n].pc \in {"run", "wait"} => cause[n] # "none"

\* C6: a startService that fails because the status is not down reports that
\* status and changes no controller, launches no goroutine and leaves the
\* barrier alone.
C6_FailedStartNoSideEffect ==
    [][(rpc = "start" /\ ~ok')
         => /\ \E n \in todo : /\ services[n].status # ServiceDown
                               /\ startErr' = services[n].status
            /\ UNCHANGED <<services, task, wg>>]_vars

\* C7: stopService on a controller whose trigger is absent is one step that
\* changes nothing but the loop's position: no controller, context, goroutine
\* or barrier changes, and nothing panics.
C7_StopAbsentIsNoop ==
    [][\A n \in Names :
         (/\ rpc = "stop"
          /\ n \in todo
          /\ ~services[n].stop
          /\ (todo' = todo \ {n} \/ cur' = n))
         => /\ todo' = todo \ {n}
            /\ rpc' \in {"stop", "wait"}
            /\ UNCHANGED <<services, task, cause, base, wg, cur, warned, crashed>>]_vars

\* The stop loop of a second Run has passed a controller that an earlier Run
\* stopped, and one that was never started.
C7_Witness ==
    /\ rpc = "wait"
    /\ ~ok
    /\ \E n \in Registered : services[n].status = ServiceStopping /\ task[n].pc = "done"
    /\ \E n \in Registered : services[n].status = ServiceDown

\* C8: a service built on ServiceController.Run has returned nil exactly when
\* the cause of its context is Stopped.
C8_CleanIffStopped ==
    \A n \in Names :
        (services[n].service = "helper" /\ task[n].pc = "cleared")
            => (task[n].err = "nil" <=> cause[n] = Stopped)

\* A helper service has returned an error for a cause set by the caller's
\* context, while stopService is at its call of that service's trigger.
C8_Witness ==
    \E n \in Names :
        /\ services[n].service = "helper"
        /\ task[n].pc = "cleared"
        /\ task[n].err \in {"Canceled", "DeadlineExceeded"}
        /\ rpc = "stopCall"
        /\ cur = n

\* C9: the step by which a goroutine handles its service's error, and the one
\* by which it then completes, log a warning, end with the status stopping and
\* the barrier signalled, and change no other controller, goroutine or context.
C9_ErrorStaysLocal ==
    [][\A n \in Names :
         (task'[n] # task[n] /\ (task'[n].err # "nil" \/ task[n].err # "nil"))
         => /\ n \in warned'
            /\ task'[n].pc = "done" =>
                   (services'[n].status = ServiceStopping /\ wg' = wg - 1)
            /\ \A m \in Names \ {n} : /\ services'[m] = services[m]
                                      /\ task'[m] = task[m]
                                      /\ cause'[m] = cause[m]
            /\ UNCHANGED <<base, orch, crashed>>]_vars

\* One service failed and is stopping, with its warning logged, while the
\* other is up, its trigger present and its context not cancelled.
C9_Witness ==
    \E n, m \in Names :
        /\ task[n].pc = "done"
        /\ n \in warned
        /\ services[n].status = ServiceStopping
        /\ task[m].pc = "wait"
        /\ services[m].status = ServiceUp
        /\ services[m].stop
        /\ cause[m] = "none"
        /\ rpc = "signal"

\* C10: a lookup yields the service registered under the name, or nil when
\* the name is not registered, and changes nothing else.
C10_Lookup ==
    [][found' # found
         => /\ services[found'.name].present
                => (found'.service = services[found'.name].service
                    /\ found'.service \in Kinds)
            /\ ~services[found'.name].present => found'.service = "nil"
            /\ UNCHANGED <<services, task, cause, base, wg, orch, warned, crashed>>]_vars

\* A running service has looked up a name that is not registered and got nil.
C10_Witness ==
    /\ found.name \in Names
    /\ ~services[found.name].present
    /\ found.service = "nil"
    /\ \E n \in Registered : task[n].pc \in {"run", "wait"}

\* C11: after AddService(name, service) the registry holds for that name one
\* controller, in status down, with no trigger, wrapping the service just
\* supplied, whether or not the name was registered before; GetService(name)
\* yields that service; and no other entry of the registry has changed.
C11_AddServiceOverwrites ==
    [][\A name \in Names :
         (rpc \in {"idle", "returned"} /\ rpc' = rpc /\ added'.name = name)
         => /\ services'[name] =
                   [present |-> TRUE, service |-> added'.service,
                    status |-> ServiceDown, stop |-> FALSE, ctx |-> "nil"]
            /\ added'.service \in Kinds
            /\ GetService(name)' = added'.service
            /\ \A m \in Names \ {name} : services'[m] = services[m]
            /\ Cardinality(Registered') = Cardinality(Registered \cup {name})]_vars

\* After a Run, a name whose controller was stopping has been registered again
\* with the other kind of service, next to a controller the Run left stopping.
C11_Witness ==
    /\ rpc = "returned"
    /\ added.replaced
    /\ services[added.name].status = ServiceDown
    /\ services[added.name].service = added.service
    /\ \E m \in Registered \ {added.name} : services[m].status = ServiceStopping

\* C12: the pending unit of a started service is registered with the barrier
\* before its goroutine can signal completion: the barrier's counter is never
\* negative, whatever the interleaving of startService with the goroutine.
C12_BarrierNeverNegative == wg >= 0

\* The goroutine of n was launched and its service.Run has not returned.
Running(n) == task[n].pc \in {"launched", "run", "wait"}

\* C13 as stated: in every reachable state a controller's trigger is non-null
\* if and only if its service task is running (launched, run operation not yet
\* returned).
C13_TriggerIffRunning == \A n \in Names : services[n].stop <=> Running(n)

\* C13 as amended: a controller's trigger is non-null only while its service
\* task is running; a running task's trigger may be null (not stored yet, or
\* cleared by stopService).
C13_TriggerOnlyWhileRunning == \A n \in Names : services[n].stop => Running(n)

\* In the stop loop one service still waits with its trigger present, while
\* another still waits after stopService cancelled it and cleared its trigger.
C13_Witness ==
    \E n, m \in Names :
        /\ rpc = "stop"
        /\ services[n].stop
        /\ task[n].pc = "wait"
        /\ cause[n] = "none"
        /\ ~services[m].stop
        /\ task[m].pc = "wait"
        /\ cause[m] = Stopped

\* C14: once a controller's status is stopping, no step changes it: not Up()
\* or Stopping() called by the service, not a start attempt, a stop call or
\* the completion of the task.
C14_StoppingIsTerminal ==
    [][\A n \in Names :
         services[n].status = ServiceStopping
            => services'[n].status = ServiceStopping]_vars

\* The status of n becomes stopping in this step.
BecomesStopping(n) ==
    /\ services[n].status # ServiceStopping
    /\ services'[n].status = ServiceStopping

\* C15 as stated: no controller's status becomes stopping before its
\* service's run operation has returned.
C15_StoppingAfterReturn ==
    [][\A n \in Names : BecomesStopping(n) => task[n].pc = "cleared"]_vars

\* C15 as amended: a controller's status becomes stopping either after its
\* service's run operation has returned, or by the running service's own call
\* of Stopping(); never by the orchestrator and never for a service built on
\* ServiceController.Run before it returned.
C15_StoppingAfterReturnOrOwnCall ==
    [][\A n \in Names :
         BecomesStopping(n)
            => \/ task[n].pc = "cleared"
               \/ /\ task[n].pc = "run"
                  /\ services[n].service = "custom"
                  /\ UNCHANGED <<task, orch, wg, cause>>]_vars

\* A running hand-written service has declared itself stopping, while a
\* helper service became stopping on completion.
C15_Witness ==
    \E n, m \in Names :
        /\ task[n].pc = "run"
        /\ services[n].status = ServiceStopping
        /\ services[m].service = "helper"
        /\ task[m].pc = "done"
        /\ services[m].status = ServiceStopping

\* The orchestrator's next step may read or write ctrl.stop of n: stopService
\* tests it (145), calls it (146) and sets it to nil (147), outside ctrl.mu.
OrchAccessesStop(n) ==
    \/ ENABLED StopCheck(n)
    \/ \E reload \in BOOLEAN : ENABLED StopCall(n, reload)

\* The goroutine's next step may write ctrl.stop of n: it stores the trigger
\* (127) and sets it to nil when service.Run returned (129), outside ctrl.mu.
TaskWritesStop(n) ==
    \/ ENABLED TaskBegin(n)
    \/ ENABLED HelperReturn(n)
    \/ \E e \in {"nil", "failed"} : ENABLED CustomReturn(n, e)

\* C16: the status, accessed only inside ctrl.mu (in this model each critical
\* section is one step), is the only controller field the orchestrator and
\* the service goroutine share: in no state are the two about to access
\* another field of the same controller, one of them writing.
C16_OnlyStatusShared ==
    \A n \in Names : ~(OrchAccessesStop(n) /\ TaskWritesStop(n))

\* C17: stopService never calls an absent trigger: however its test and its
\* call interleave with the goroutine clearing the trigger, the process does
\* not panic in stopService, so Run does not raise to its caller.
C17_StopNeverPanics == ~(crashed /\ rpc = "stopCall")

\* C18: stopService on a controller whose trigger is present cancels the
\* service's context with the cause Stopped (a context cancelled before keeps
\* its first cause), clears the trigger and returns at once: it changes no
\* status, waits for no goroutine and leaves the barrier alone.
C18_StopDoesNotWait ==
    [][\A n \in Names :
         (rpc = "stopCall" /\ cur = n /\ services[n].stop /\ rpc' # "stopCall")
         => /\ HasCtx(n) =>
                   cause'[n] = (IF cause[n] = "none" THEN Stopped ELSE cause[n])
            /\ ~services'[n].stop
            /\ services'[n].status = services[n].status
            /\ \A m \in Names \ {n} : /\ services'[m] = services[m]
                                      /\ cause'[m] = cause[m]
            /\ rpc' \in {"stop", "wait"}
            /\ UNCHANGED <<task, wg, base, crashed>>]_vars

\* The stop loop is over and Run is at the barrier, while a stopped helper
\* service is still up and a stopped hand-written one still starting, both
\* cancelled with Stopped and neither returned.
C18_Witness ==
    \E n, m \in Names :
        /\ rpc = "wait"
        /\ wg = NumNames
        /\ cause[n] = Stopped /\ ~services[n].stop
        /\ task[n].pc = "wait" /\ services[n].status = ServiceUp
        /\ cause[m] = Stopped /\ ~services[m].stop
        /\ task[m].pc = "run" /\ services[m].status = ServiceStarting

\* C19: when every start succeeded, as long as no signal has been received Run
\* is in its start loop or blocked on quit: it has called stopService on no
\* controller (no context is cancelled with Stopped) and has not returned,
\* also when every service goroutine has already ended.
C19_NoStopBeforeSignal ==
    (ok /\ ~sig) => /\ rpc \in {"idle", "start", "add", "signal"}
                    /\ \A n \in Names : cause[n] # Stopped

\* Every registered service has returned on its own and its goroutine has
\* ended, and Run still waits for a signal.
C19_Witness ==
    /\ rpc = "signal"
    /\ ~sig
    /\ ok
    /\ Registered = Names
    /\ Completed = Names
    /\ wg = 0

\* C20: in the start/shutdown variant, once the stop signal is received Run
\* returns, provided every Start task exits, also when a Shutdown call
\* outlasts the grace period or never returns; and Run has returned only
\* after every Start task signalled the barrier.
C20_PairRunReturns ==
    /\ sig ~> (rpc = "returned")
    /\ [](rpc = "returned" => /\ wg = 0
                               /\ \A n \in Registered : task[n].pc = "done")

\* Run has returned while the Shutdown call of one service is still in
\* progress past its deadline, and the Shutdown of another ended with a
\* logged error.
C20_Witness ==
    /\ rpc = "returned"
    /\ Registered = Names
    /\ \A n \in Names : services[n].service = "pair" /\ task[n].pc = "done"
    /\ \E n \in Names : shut[n] = "expired"
    /\ \E n \in Names : shut[n] = "returned" /\ n \in warned

\* C21: in the start/shutdown variant, once Run has returned after the stop
\* signal, every Shutdown call it issued has returned or has reached the
\* deadline of its grace period: none is still to be made or still in
\* progress within its grace period.
C21_PairRunWaitsForShutdown ==
    (rpc = "returned" /\ sig)
        => \A n \in Registered : shut[n] \in {"expired", "returned"}

\* Every registered controller is stopping and its goroutine has ended.
AllStopped ==
    /\ Registered # {}
    /\ \A n \in Registered : /\ services[n].status = ServiceStopping
                              /\ task[n].pc = "done"

\* Run was called again on a Daemon whose Run had completed, with nothing
\* registered in between: it is about to make its first start attempt, or that
\* attempt has failed.
Rerun == (rpc = "start" /\ AllStopped) \/ ~ok

\* C22: a Run called again after a completed Run launches no goroutine and
\* touches no barrier: its first start attempt fails with "service is
\* stopping", it goes to the stop loop without waiting for a signal, no
\* stopService finds a trigger, it is never blocked, and every controller's
\* status stays stopping up to and after its return.
C22_SecondRunStartsNothing ==
    /\ [][Rerun
            => /\ (rpc = "start" /\ rpc' # "start")
                    => (~ok' /\ startErr' = ServiceStopping /\ rpc' = "stop")
               /\ rpc' \in {"start", "stop", "wait", "returned"}
               /\ AllStopped'
               /\ \A n \in Names : ~services'[n].stop
               /\ UNCHANGED <<task, wg, cause, sig, crashed>>]_vars
    /\ [](Rerun => /\ wg = 0
                    /\ ~sig
                    /\ Active = {}
                    /\ rpc # "returned" => ENABLED RunStep)

\* The second Run has returned: its first start attempt failed on a stopping
\* controller, no signal was received, and both a helper and a hand-written
\* service are still stopping, their goroutines of the first Run long ended.
C22_Witness ==
    /\ rpc = "returned"
    /\ ~ok
    /\ ~sig
    /\ startErr = ServiceStopping
    /\ Registered = Names
    /\ {services[n].service : n \in Names} = Kinds
    /\ AllStopped

====
